---- MODULE Spec2Model ----
(***************************************************************************)
(* Model of src/platforms/claude_code/stats_hook.py: the crabigator stats  *)
(* hook.  Every hook event is handled by a fresh process that reads one    *)
(* payload from stdin, loads the session's stats file, applies the event,  *)
(* and saves the file through a temp file and a rename.                    *)
(*                                                                         *)
(* Python dicts are functions over their keys (a missing key is a missing  *)
(* domain element), lists are sequences, None is the empty tuple and a     *)
(* timestamp t stored in an optional field is <<t>>.                       *)
(*                                                                         *)
(* A process is at one of the positions load, dispatch, save, write,       *)
(* rename; its steps are the points where it touches the file system or    *)
(* reads the clock.  All processes belong to one session, so get_stats_file*)
(* gives them the same path; debug_log writes a log nothing reads and is   *)
(* left out.  Reading an intact stats file succeeds; opening, writing and  *)
(* renaming the temp file may fail at any point.                           *)
(* Stdin holds a payload object, text that is not JSON, bytes that are not *)
(* text (how sys.stdin decodes them depends on the locale, both outcomes   *)
(* are steps of the model), or a JSON value that is not an object.         *)
(***************************************************************************)
EXTENDS Integers, Sequences, FiniteSets, TLC

\* ------------------------------------------------------------------ bounds
NumProcs == 3          \* hook processes (one invocation each)
MaxOverlap == 2        \* processes running at the same time
Chunks == 2            \* write() calls json.dump needs for one document
MaxClock == 1          \* largest value of the wall clock
PrefixSpan == 1        \* the long-history runs start 1..PrefixSpan events below the cap

\* --------------------------------------------------------------- constants
MAX_EVENT_HISTORY == 100

Procs == 1..NumProcs

None == <<>>
Some(t) == <<t>>
EmptyDict == <<>>

VARIABLES
  file,       \* content of the stats file (the rename target)
  tmp,        \* tmp[p]: content of the temp file of process p
  pc,         \* pc[p]: position of process p in main()
  exit,       \* exit[p]: how p ended, its exit status and the reason
  data,       \* data[p]: the payload p parsed from stdin
  stats,      \* stats[p]: the in-memory stats dict of p
  now,        \* the wall clock, time.time()
  loaded,     \* history: loaded[p] is what load_stats returned to p
  loadVer,    \* history: loadVer[p] is the number of renames that preceded p's load
  submitted,  \* history: payloads of the invocations that saved, in rename order
  last        \* history: what the invocation of the latest rename loaded, and when

vars == <<file, tmp, pc, exit, data, stats, now, loaded, loadVer, submitted, last>>

\* ------------------------------------------------------------ dict helpers
\* d.get(k, default)
Get(d, k, default) == IF k \in DOMAIN d THEN d[k] ELSE default

\* d[k] = v
Put(d, k, v) == (k :> v) @@ d

\* ------------------------------------------------------------- file content
Absent == [kind |-> "absent"]

\* the first n of the Chunks pieces of the serialisation of doc
Written(doc, n) == [kind |-> "json", doc |-> doc, n |-> n]

\* bytes that are not text in the default encoding
Undecodable == [kind |-> "bytes"]

\* what a failed unlink leaves of the temp file of a process that is gone: its
\* path carries the pid, no later process opens it
Litter == [kind |-> "litter"]

\* json.dump(stats, f) once the file is closed
Serialize(doc) == Written(doc, Chunks)

\* content on which json.load returns a value
Parses(c) == c.kind = "json" /\ c.n = Chunks

\* ---------------------------------------------------------------- payloads
EventNames == {"PermissionRequest", "PostToolUse", "Stop", "SubagentStop",
               "PreCompact", "UserPromptSubmit", "Unknown"}

ToolNames == {"Read", "AskUserQuestion"}

ToolEvents == {"PermissionRequest", "PostToolUse"}

\* the payloads json.load(sys.stdin) returns
Payloads ==
  {EmptyDict}
  \cup {[hook_event_name |-> e] : e \in EventNames}
  \cup {[hook_event_name |-> e, tool_name |-> t] : e \in ToolEvents, t \in ToolNames}

\* stdin: a payload, or bytes that give main() no payload: text that is not JSON,
Malformed == [ok |-> FALSE]

\* bytes that are not text in the encoding of sys.stdin,
NotText == [ok |-> FALSE, why |-> "not_text"]

\* or a JSON value that is not an object ([], null, "Stop", 5)
NotObject == [ok |-> FALSE, why |-> "not_object"]

Stdin == {Malformed, NotText, NotObject} \cup {[ok |-> TRUE, data |-> d] : d \in Payloads}

\* ------------------------------------------------------------------ store
DefaultStats ==
  [prompts |-> 0, completions |-> 0, subagent_messages |-> 0, compressions |-> 0,
   tools |-> EmptyDict, tool_timestamps |-> <<>>, state |-> "ready",
   pending_question |-> FALSE, idle_since |-> None, last_updated |-> None]

\* load_stats raises: UnicodeDecodeError is neither JSONDecodeError nor IOError
LoadRaises(c) == c.kind = "bytes"

\* mutant: the file is ignored, every invocation starts from the defaults
load_stats_fresh(c) == DefaultStats

\* load_stats(stats_file), when it returns
load_stats(c) == IF Parses(c) THEN c.doc ELSE DefaultStats

\* mutant: the slice h[:MAX_EVENT_HISTORY], which keeps the oldest entries
LastN_oldest(h, n) == IF Len(h) > n THEN SubSeq(h, 1, n) ELSE h

\* the list slice h[-MAX_EVENT_HISTORY:]
LastN(h, n) == IF Len(h) > n THEN SubSeq(h, Len(h) - n + 1, Len(h)) ELSE h

Truncate(h) == IF Len(h) > MAX_EVENT_HISTORY THEN LastN(h, MAX_EVENT_HISTORY) ELSE h

NewEntry(s, event, details, t) ==
  LET base == [ts |-> t, event |-> event, state_before |-> Get(s, "state", "ready")]
  IN  IF details # EmptyDict THEN Put(base, "details", details) ELSE base

\* mutant: the entry is inserted at the front of the list
add_event_newest_first(s, event, details, t) ==
  LET s1 == IF "event_history" \in DOMAIN s THEN s ELSE Put(s, "event_history", <<>>)
  IN  Put(s1, "event_history", Truncate(<<NewEntry(s1, event, details, t)>> \o s1["event_history"]))

add_event(s, event, details, t) ==
  LET s1 == IF "event_history" \in DOMAIN s THEN s ELSE Put(s, "event_history", <<>>)
  IN  Put(s1, "event_history", Truncate(Append(s1["event_history"], NewEntry(s1, event, details, t))))

\* ------------------------------------------------------------ interpreter
EventOf(d) == Get(d, "hook_event_name", "")

ToolOf(d) == Get(d, "tool_name", "unknown")

\* mutant: the entry is appended after the phase is set
OnPermissionRequest_entry_last(s, d, t) ==
  add_event(Put(s, "state", "permission"), EventOf(d), [tool |-> ToolOf(d)], t)

\* mutant: the request is counted as a use of the tool
OnPermissionRequest_counts_tool(s, d, t) ==
  LET s1 == add_event(s, EventOf(d), [tool |-> ToolOf(d)], t)
      s2 == Put(s1, "tools", Put(s1["tools"], ToolOf(d), Get(s1["tools"], ToolOf(d), 0) + 1))
  IN  Put(s2, "state", "permission")

OnPermissionRequest(s, d, t) ==
  Put(add_event(s, EventOf(d), [tool |-> ToolOf(d)], t), "state", "permission")

\* mutant: the pending flag is assigned, not only set
OnPostToolUse_assigns_pending(s, d, t) ==
  LET tool == ToolOf(d)
      s1 == add_event(s, EventOf(d), [tool |-> tool], t)
      s2 == Put(s1, "tools", Put(s1["tools"], tool, Get(s1["tools"], tool, 0) + 1))
      s3 == IF "tool_timestamps" \in DOMAIN s2 THEN s2 ELSE Put(s2, "tool_timestamps", <<>>)
      s4 == Put(s3, "tool_timestamps", Append(s3["tool_timestamps"], t))
      s5 == Put(s4, "pending_question", tool = "AskUserQuestion")
  IN  Put(s5, "state", "thinking")

OnPostToolUse(s, d, t) ==
  LET tool == ToolOf(d)
      s1 == add_event(s, EventOf(d), [tool |-> tool], t)
      s2 == Put(s1, "tools", Put(s1["tools"], tool, Get(s1["tools"], tool, 0) + 1))
      s3 == IF "tool_timestamps" \in DOMAIN s2 THEN s2 ELSE Put(s2, "tool_timestamps", <<>>)
      s4 == Put(s3, "tool_timestamps", Append(s3["tool_timestamps"], t))
      s5 == IF tool = "AskUserQuestion" THEN Put(s4, "pending_question", TRUE) ELSE s4
  IN  Put(s5, "state", "thinking")

\* mutant: Stop never looks at the pending flag
OnStop_no_question(s, d, t) ==
  LET s1 == add_event(s, EventOf(d), [pending_question |-> Get(s, "pending_question", FALSE)], t)
      s2 == Put(s1, "completions", Get(s1, "completions", 0) + 1)
  IN  Put(Put(s2, "state", "complete"), "idle_since", Some(t))

\* mutant: Stop goes to question and leaves the pending flag set
OnStop_keeps_pending(s, d, t) ==
  LET s1 == add_event(s, EventOf(d), [pending_question |-> Get(s, "pending_question", FALSE)], t)
      s2 == Put(s1, "completions", Get(s1, "completions", 0) + 1)
      s3 == IF Get(s2, "pending_question", FALSE)
            THEN Put(s2, "state", "question")
            ELSE Put(s2, "state", "complete")
  IN  Put(s3, "idle_since", Some(t))

\* mutant: Stop does not start the idle timer
OnStop_no_idle(s, d, t) ==
  LET s1 == add_event(s, EventOf(d), [pending_question |-> Get(s, "pending_question", FALSE)], t)
      s2 == Put(s1, "completions", Get(s1, "completions", 0) + 1)
  IN  IF Get(s2, "pending_question", FALSE)
      THEN Put(Put(s2, "state", "question"), "pending_question", FALSE)
      ELSE Put(s2, "state", "complete")

OnStop(s, d, t) ==
  LET s1 == add_event(s, EventOf(d), [pending_question |-> Get(s, "pending_question", FALSE)], t)
      s2 == Put(s1, "completions", Get(s1, "completions", 0) + 1)
      s3 == IF Get(s2, "pending_question", FALSE)
            THEN Put(Put(s2, "state", "question"), "pending_question", FALSE)
            ELSE Put(s2, "state", "complete")
  IN  Put(s3, "idle_since", Some(t))

\* mutant: a subagent message counts as activity and moves the phase
OnSubagentStop_thinking(s, d, t) ==
  LET s1 == add_event(s, EventOf(d), EmptyDict, t)
  IN  Put(Put(s1, "subagent_messages", s1["subagent_messages"] + 1), "state", "thinking")

OnSubagentStop(s, d, t) ==
  LET s1 == add_event(s, EventOf(d), EmptyDict, t)
  IN  Put(s1, "subagent_messages", s1["subagent_messages"] + 1)

\* mutant: the branch copied from SubagentStop with its counter left in
OnPreCompact_copied(s, d, t) ==
  LET s1 == add_event(s, EventOf(d), EmptyDict, t)
  IN  Put(s1, "subagent_messages", s1["subagent_messages"] + 1)

OnPreCompact(s, d, t) ==
  LET s1 == add_event(s, EventOf(d), EmptyDict, t)
  IN  Put(s1, "compressions", s1["compressions"] + 1)

\* mutant: the idle timer is not cleared
OnUserPromptSubmit_keeps_idle(s, d, t) ==
  LET s1 == add_event(s, EventOf(d), EmptyDict, t)
      s2 == Put(s1, "prompts", Get(s1, "prompts", 0) + 1)
      s3 == Put(s2, "state", "thinking")
  IN  Put(s3, "pending_question", FALSE)

OnUserPromptSubmit(s, d, t) ==
  LET s1 == add_event(s, EventOf(d), EmptyDict, t)
      s2 == Put(s1, "prompts", Get(s1, "prompts", 0) + 1)
      s3 == Put(s2, "state", "thinking")
      s4 == Put(s3, "pending_question", FALSE)
  IN  Put(s4, "idle_since", None)

\* mutant: an unknown event resets the phase
OnUnhandled_ready(s, d, t) ==
  Put(add_event(s, EventOf(d), [unhandled |-> TRUE], t), "state", "ready")

OnUnhandled(s, d, t) == add_event(s, EventOf(d), [unhandled |-> TRUE], t)

\* the if/elif chain of main(): stats after the event d at time t
Handle(s, d, t) ==
  CASE EventOf(d) = "PermissionRequest" -> OnPermissionRequest(s, d, t)
    [] EventOf(d) = "PostToolUse"       -> OnPostToolUse(s, d, t)
    [] EventOf(d) = "Stop"              -> OnStop(s, d, t)
    [] EventOf(d) = "SubagentStop"      -> OnSubagentStop(s, d, t)
    [] EventOf(d) = "PreCompact"        -> OnPreCompact(s, d, t)
    [] EventOf(d) = "UserPromptSubmit"  -> OnUserPromptSubmit(s, d, t)
    [] OTHER                            -> OnUnhandled(s, d, t)

\* ---------------------------------------------------------------- actions
Running(p) == pc[p] \notin {"unborn", "done"}

\* the host starts processes with fresh pids, lowest first
NextPid(p) == pc[p] = "unborn" /\ \A q \in Procs : q < p => pc[q] # "unborn"

NotYet == [status |-> -1, why |-> "running"]

Ghosts == <<loaded, loadVer, submitted, last>>

\* sys.exit(status), or death by an uncaught exception (status 1): the memory of
\* the process is gone
Exits(p, status, why) ==
  /\ pc' = [pc EXCEPT ![p] = "done"]
  /\ exit' = [exit EXCEPT ![p] = [status |-> status, why |-> why]]
  /\ data' = [data EXCEPT ![p] = EmptyDict]
  /\ stats' = [stats EXCEPT ![p] = EmptyDict]
  /\ loaded' = [loaded EXCEPT ![p] = EmptyDict]
  /\ loadVer' = [loadVer EXCEPT ![p] = 0]

\* main(): json.load(sys.stdin) returns a payload
ParseOk(p, in) ==
  /\ NextPid(p)
  /\ in.ok
  /\ data' = [data EXCEPT ![p] = in.data]
  /\ pc' = [pc EXCEPT ![p] = "load"]
  /\ UNCHANGED <<file, tmp, exit, stats, now, Ghosts>>

\* main(): json.load(sys.stdin) raises JSONDecodeError, sys.exit(0).  Bytes that
\* are not text get here when sys.stdin decodes with surrogateescape (the C and
\* POSIX locales): the decoded text is not JSON
ParseFail(p, in) ==
  /\ NextPid(p)
  /\ in \in {Malformed, NotText}
  /\ Exits(p, 0, "bad_input")
  /\ UNCHANGED <<file, tmp, now, submitted, last>>

\* main(): an exception other than JSONDecodeError before load_stats, the process
\* dies with a traceback: UnicodeDecodeError from json.load(sys.stdin) when
\* sys.stdin decodes strictly (any other locale), AttributeError from data.get
\* when the JSON value has no get
InputCrash(p, in) ==
  /\ NextPid(p)
  /\ in \in {NotText, NotObject}
  /\ Exits(p, 1, in.why)
  /\ UNCHANGED <<file, tmp, now, submitted, last>>

\* main(): stats = load_stats(stats_file)
Load(p) ==
  /\ pc[p] = "load"
  /\ ~LoadRaises(file)
  /\ stats' = [stats EXCEPT ![p] = load_stats(file)]
  /\ loaded' = [loaded EXCEPT ![p] = load_stats(file)]
  /\ loadVer' = [loadVer EXCEPT ![p] = Len(submitted)]
  /\ pc' = [pc EXCEPT ![p] = "dispatch"]
  /\ UNCHANGED <<file, tmp, exit, data, now, submitted, last>>

\* main(): load_stats raises, the process dies with a traceback
LoadCrash(p) ==
  /\ pc[p] = "load"
  /\ LoadRaises(file)
  /\ Exits(p, 1, "load_raised")
  /\ UNCHANGED <<file, tmp, now, submitted, last>>

\* main(): the event dispatch
Dispatch(p) ==
  /\ pc[p] = "dispatch"
  /\ stats' = [stats EXCEPT ![p] = Handle(stats[p], data[p], now)]
  /\ pc' = [pc EXCEPT ![p] = "save"]
  /\ UNCHANGED <<file, tmp, exit, data, now, Ghosts>>

\* mutant: the target itself is opened for writing
SaveOpen_in_place(p) ==
  /\ pc[p] = "save"
  /\ stats' = [stats EXCEPT ![p] = Put(stats[p], "last_updated", Some(now))]
  /\ tmp' = [tmp EXCEPT ![p] = Written(stats'[p], 0)]
  /\ file' = Written(stats'[p], 0)
  /\ pc' = [pc EXCEPT ![p] = "write"]
  /\ UNCHANGED <<exit, data, now, Ghosts>>

\* save_stats: last_updated is set and the temp file is opened for writing
SaveOpen(p) ==
  /\ pc[p] = "save"
  /\ stats' = [stats EXCEPT ![p] = Put(stats[p], "last_updated", Some(now))]
  /\ tmp' = [tmp EXCEPT ![p] = Written(stats'[p], 0)]
  /\ pc' = [pc EXCEPT ![p] = "write"]
  /\ UNCHANGED <<file, exit, data, now, Ghosts>>

\* save_stats: json.dump writes the next piece of the document to the temp file
SaveWrite(p) ==
  /\ pc[p] = "write"
  /\ tmp[p].n < Chunks
  /\ tmp' = [tmp EXCEPT ![p] = Written(tmp[p].doc, tmp[p].n + 1)]
  /\ pc' = [pc EXCEPT ![p] = IF tmp[p].n + 1 = Chunks THEN "rename" ELSE "write"]
  /\ UNCHANGED <<file, exit, data, stats, now, Ghosts>>

\* mutant: the event is applied again to the file as it is at the rename
SaveRename_merging(p) ==
  /\ pc[p] = "rename"
  /\ file' = Serialize(Put(Handle(load_stats(file), data[p], now), "last_updated", Some(now)))
  /\ tmp' = [tmp EXCEPT ![p] = Absent]
  /\ submitted' = Append(submitted, data[p])
  /\ last' = [loaded |-> loaded[p], ver |-> loadVer[p]]
  /\ Exits(p, 0, "saved")
  /\ UNCHANGED now

\* mutant: at the rename each counter is raised to the one in the file, so that
\* the increments of invocations that saved in between are not lost
SaveRename_max_counters(p) ==
  /\ pc[p] = "rename"
  /\ file' = Serialize([k \in DOMAIN tmp[p].doc |->
                IF k \in {"prompts", "completions", "subagent_messages", "compressions"}
                     /\ load_stats(file)[k] > tmp[p].doc[k]
                THEN load_stats(file)[k] ELSE tmp[p].doc[k]])
  /\ tmp' = [tmp EXCEPT ![p] = Absent]
  /\ submitted' = Append(submitted, data[p])
  /\ last' = [loaded |-> loaded[p], ver |-> loadVer[p]]
  /\ Exits(p, 0, "saved")
  /\ UNCHANGED now

\* save_stats: temp_file.rename(stats_file), then sys.exit(0)
SaveRename(p) ==
  /\ pc[p] = "rename"
  /\ file' = tmp[p]
  /\ tmp' = [tmp EXCEPT ![p] = Absent]
  /\ submitted' = Append(submitted, data[p])
  /\ last' = [loaded |-> loaded[p], ver |-> loadVer[p]]
  /\ Exits(p, 0, "saved")
  /\ UNCHANGED now

\* mutant: the cleanup unlinks the target instead of the temp file
SaveFail_unlinks_target(p) ==
  /\ pc[p] \in {"save", "write", "rename"}
  /\ file' = Absent
  /\ tmp' = [tmp EXCEPT ![p] = IF tmp[p] = Absent THEN Absent ELSE Litter]
  /\ Exits(p, 0, "save_failed")
  /\ UNCHANGED <<now, submitted, last>>

\* save_stats: open, write or rename raises OSError; the temp file is unlinked
\* (the unlink may fail as well), then sys.exit(0)
SaveFail(p) ==
  /\ pc[p] \in {"save", "write", "rename"}
  /\ \E gone \in BOOLEAN :
       tmp' = [tmp EXCEPT ![p] = IF gone \/ tmp[p] = Absent THEN Absent ELSE Litter]
  /\ Exits(p, 0, "save_failed")
  /\ UNCHANGED <<file, now, submitted, last>>

\* the wall clock advances
Tick ==
  /\ now < MaxClock
  /\ now' = now + 1
  /\ UNCHANGED <<file, tmp, pc, exit, data, stats, Ghosts>>

\* ---------------------------------------------------------- specifications
NoRename == [loaded |-> EmptyDict, ver |-> -1]

InitProcs ==
  /\ tmp = [p \in Procs |-> Absent]
  /\ pc = [p \in Procs |-> "unborn"]
  /\ exit = [p \in Procs |-> NotYet]
  /\ data = [p \in Procs |-> EmptyDict]
  /\ stats = [p \in Procs |-> EmptyDict]
  /\ loaded = [p \in Procs |-> EmptyDict]
  /\ loadVer = [p \in Procs |-> 0]
  /\ last = NoRename
  /\ now = 0

\* a new session: no stats file yet
Init ==
  /\ InitProcs
  /\ file = Absent
  /\ submitted = <<>>

\* the inputs of the overlapping runs: one event for each way of changing the
\* file (a counter and the phase, the pending flag, a counter alone), and bad input
ConcStdin ==
  {Malformed, NotText, NotObject}
  \cup {[ok |-> TRUE, data |-> [hook_event_name |-> e]] : e \in {"UserPromptSubmit", "Stop", "PreCompact"}}
  \cup {[ok |-> TRUE, data |-> [hook_event_name |-> "PostToolUse", tool_name |-> "AskUserQuestion"]]}

\* the host starts a hook while fewer than MaxOverlap are running
Room == Cardinality({q \in Procs : Running(q)}) < MaxOverlap

ConcParseOk(p, in) == Room /\ ParseOk(p, in)

ConcParseFail(p, in) == Room /\ ParseFail(p, in)

ConcInputCrash(p, in) == Room /\ InputCrash(p, in)

\* invocations of one session, overlapping in any way
Next ==
  \/ \E p \in Procs, in \in ConcStdin : ConcParseOk(p, in)
  \/ \E p \in Procs, in \in ConcStdin : ConcParseFail(p, in)
  \/ \E p \in Procs, in \in ConcStdin : ConcInputCrash(p, in)
  \/ \E p \in Procs : Load(p)
  \/ \E p \in Procs : Dispatch(p)
  \/ \E p \in Procs : SaveOpen(p)
  \/ \E p \in Procs : SaveWrite(p)
  \/ \E p \in Procs : SaveRename(p)
  \/ \E p \in Procs : SaveFail(p)
  \/ Tick

Spec == Init /\ [][Next]_vars

\* sequential delivery: a process starts only when no other one is running
NoneRunning == \A q \in Procs : ~Running(q)

SeqParseOk(p, in) == NoneRunning /\ ParseOk(p, in)

SeqParseFail(p, in) == NoneRunning /\ ParseFail(p, in)

SeqInputCrash(p, in) == NoneRunning /\ InputCrash(p, in)

\* the events of a session that is already some events old
PrefixCycle ==
  << [hook_event_name |-> "UserPromptSubmit"],
     [hook_event_name |-> "PostToolUse", tool_name |-> "Read"],
     [hook_event_name |-> "PermissionRequest", tool_name |-> "Read"],
     [hook_event_name |-> "PostToolUse", tool_name |-> "AskUserQuestion"],
     [hook_event_name |-> "SubagentStop"],
     [hook_event_name |-> "Stop"],
     [hook_event_name |-> "PreCompact"] >>

Prefix(n) == [i \in 1..n |-> PrefixCycle[((i - 1) % Len(PrefixCycle)) + 1]]

PrefixLens == {0} \cup ((MAX_EVENT_HISTORY - PrefixSpan)..(MAX_EVENT_HISTORY - 1))

\* one whole invocation that saves: load, dispatch, save_stats
Invoke(c, d, t) == Serialize(Put(Handle(load_stats(c), d, t), "last_updated", Some(t)))

\* the stats file after events lo..hi of ds are delivered, one after another, to
\* the file content c (halved, so that the evaluation stays shallow)
RECURSIVE RunRange(_, _, _, _)
RunRange(c, ds, lo, hi) ==
  IF lo > hi THEN c
  ELSE IF lo = hi THEN Invoke(c, ds[lo], 0)
  ELSE LET mid == (lo + hi) \div 2
           c1 == RunRange(c, ds, lo, mid)
       IN  IF Parses(c1) THEN RunRange(c1, ds, mid + 1, hi) ELSE c1

InitSeq ==
  /\ InitProcs
  /\ \E n \in PrefixLens :
       /\ submitted = Prefix(n)
       /\ file = RunRange(Absent, submitted, 1, n)

NextSeq ==
  \/ \E p \in Procs, in \in Stdin : SeqParseOk(p, in)
  \/ \E p \in Procs, in \in Stdin : SeqParseFail(p, in)
  \/ \E p \in Procs, in \in Stdin : SeqInputCrash(p, in)
  \/ \E p \in Procs : Load(p)
  \/ \E p \in Procs : Dispatch(p)
  \/ \E p \in Procs : SaveOpen(p)
  \/ \E p \in Procs : SaveWrite(p)
  \/ \E p \in Procs : SaveRename(p)
  \/ \E p \in Procs : SaveFail(p)
  \/ Tick

\* invocations of one session delivered one after another
SpecSeq == InitSeq /\ [][NextSeq]_vars

\* a stats file damaged from outside: cut short, or not text at all
Damaged == {Written(DefaultStats, n) : n \in 0..(Chunks - 1)} \cup {Undecodable}

InitDamaged ==
  /\ InitProcs
  /\ file \in Damaged
  /\ submitted = <<>>

NextDamaged ==
  \/ NextSeq
  \/ \E p \in Procs : LoadCrash(p)

\* sequential delivery to a session whose stats file is damaged
SpecDamaged == InitDamaged /\ [][NextDamaged]_vars

\* a step of process p once it has read its input: nothing in main() waits, so
\* the scheduler runs every started process to its exit
Step(p) ==
  \/ Load(p)
  \/ Dispatch(p)
  \/ SaveOpen(p)
  \/ SaveWrite(p)
  \/ SaveRename(p)
  \/ SaveFail(p)

\* overlapping invocations, each one scheduled until it exits
SpecLive == Spec /\ \A p \in Procs : WF_vars(Step(p))

\* ------------------------------------------------------------------ claims
Counters == {"prompts", "completions", "subagent_messages", "compressions"}

\* the counter an event name is counted in
CounterOf(e) ==
  CASE e = "UserPromptSubmit" -> "prompts"
    [] e = "Stop"             -> "completions"
    [] e = "SubagentStop"     -> "subagent_messages"
    [] e = "PreCompact"       -> "compressions"
    [] OTHER                  -> "none"

Bump(e, c) == IF CounterOf(e) = c THEN 1 ELSE 0

History(d) == Get(d, "event_history", <<>>)

Min(a, b) == IF a < b THEN a ELSE b

IsAsk(d) == EventOf(d) = "PostToolUse" /\ ToolOf(d) = "AskUserQuestion"

\* the state a reader of the stats file gets: the document, or the defaults
Persisted == IF file.kind = "json" /\ file.n = Chunks THEN file.doc ELSE DefaultStats

Whole(c) == c.kind = "json" /\ c.n = Chunks

Renamed == last.ver >= 0

LastEvent == EventOf(submitted[Len(submitted)])

\* C1: while invocations overlap and write their temp files piece by piece, the
\* stats file is at every instant either absent or one complete document, the
\* one written by the invocation that renamed last: never a part of a document.
C1_ReaderSeesWholeDocument ==
  \/ file = Absent /\ submitted = <<>>
  \/ /\ Whole(file)
     /\ submitted # <<>>
     /\ file.doc.last_updated # None
     /\ History(file.doc)[Len(History(file.doc))].event = LastEvent

\* C1 witness: one process has written a part of its temp file while the stats
\* file holds the complete document of another one.
C1_Witness ==
  \E p \in Procs :
    /\ pc[p] = "write"
    /\ tmp[p].n > 0
    /\ tmp[p].n < Chunks
    /\ Whole(file)

\* C2: last writer wins: when the invocation that renamed last had loaded the
\* file before the invocation before it renamed, the file is the state it loaded
\* with its own event applied: counters and history show one event more than the
\* loaded state, and nothing of the other invocation's event.
C2_LastWriterWins ==
  (Renamed /\ Len(submitted) >= 2 /\ last.ver <= Len(submitted) - 2) =>
    /\ Whole(file)
    /\ \A c \in Counters : file.doc[c] = last.loaded[c] + Bump(LastEvent, c)
    /\ Len(History(file.doc)) = Len(History(last.loaded)) + 1
    /\ SubSeq(History(file.doc), 1, Len(History(last.loaded))) = History(last.loaded)
    /\ History(file.doc)[Len(History(file.doc))].event = LastEvent

\* C2 witness: a prompt and a Stop both loaded the new session's empty state, the
\* prompt saved first, the Stop last: the file counts the Stop and not the prompt.
C2_Witness ==
  /\ Len(submitted) = 2
  /\ last.ver = 0
  /\ EventOf(submitted[1]) = "UserPromptSubmit"
  /\ EventOf(submitted[2]) = "Stop"
  /\ \A p \in Procs : ~Running(p)
  /\ file.doc.prompts = 0
  /\ file.doc.completions = 1
  /\ Len(file.doc.event_history) = 1

\* C3 as claimed: from one version of the stats file to the next no counter
\* decreases, overlapping invocations included.
C3_CountersNeverDecrease ==
  [][(Whole(file) /\ Whole(file')) => \A c \in Counters : file'.doc[c] >= file.doc[c]]_vars

\* C3 amended: no counter decreases from one version of the stats file to the
\* next when the invocation that writes the new version had loaded the version
\* it replaces (no other invocation saved between its load and its rename).
C3_CountersNeverDecreaseUnlessOverlap ==
  [][(submitted' # submitted /\ last'.ver = Len(submitted))
       => \A c \in Counters : Persisted'[c] >= Persisted[c]]_vars

\* C3 witness: a second version written by an invocation that loaded the first.
C3_Witness ==
  /\ Len(submitted) = 2
  /\ last.ver = 1
  /\ Whole(file)
  /\ file.doc.prompts = 1
  /\ file.doc.completions = 1

\* C4: after N events delivered one after another, each saved, the history holds
\* min(MAX_EVENT_HISTORY, N) entries and they are the last events, in order.
C4_HistoryIsTail ==
  LET h == History(Persisted)
      N == Len(submitted)
  IN  /\ Len(h) = Min(MAX_EVENT_HISTORY, N)
      /\ \A i \in 1..Len(h) :
           /\ h[i].event = EventOf(submitted[N - Len(h) + i])
           /\ EventOf(submitted[N - Len(h) + i]) \in ToolEvents
                => h[i].details.tool = ToolOf(submitted[N - Len(h) + i])

\* C4 witness: more events than the history holds have been saved.
C4_Witness ==
  /\ Len(submitted) = MAX_EVENT_HISTORY + 2
  /\ Len(History(Persisted)) = MAX_EVENT_HISTORY
  /\ EventOf(submitted[1]) # EventOf(submitted[3])

\* a Stop ends the run of events i+1..N that follows the question tool use i
StopAfterAsk(i, between) ==
  /\ i < Len(submitted)
  /\ IsAsk(submitted[i])
  /\ LastEvent = "Stop"
  /\ \A j \in (i + 1)..(Len(submitted) - 1) : EventOf(submitted[j]) \notin between

StopMakesComplete ==
  (Renamed /\ LastEvent = "Stop" /\ ~Get(last.loaded, "pending_question", FALSE))
    => Persisted.state = "complete"

\* C5 as claimed: a Stop after a question tool use with no Stop in between,
\* whatever else comes in between, gives state question and clears the flag; a
\* Stop found with the flag clear gives state complete.
C5_StopAfterQuestion ==
  /\ \A i \in 1..Len(submitted) :
       StopAfterAsk(i, {"Stop"})
         => Persisted.state = "question" /\ ~Persisted.pending_question
  /\ StopMakesComplete

\* C5 amended: a Stop after a question tool use with neither a Stop nor a
\* UserPromptSubmit in between gives state question and clears the flag; a Stop
\* found with the flag clear gives state complete.
C5_StopAfterQuestionNoPrompt ==
  /\ \A i \in 1..Len(submitted) :
       StopAfterAsk(i, {"Stop", "UserPromptSubmit"})
         => Persisted.state = "question" /\ ~Persisted.pending_question
  /\ StopMakesComplete

\* C5 witness: question tool use, a permission request, then Stop.
C5_Witness ==
  /\ Len(submitted) = 3
  /\ IsAsk(submitted[1])
  /\ EventOf(submitted[2]) = "PermissionRequest"
  /\ EventOf(submitted[3]) = "Stop"
  /\ Persisted.state = "question"

C7_CountersStepByOne ==
  Renamed => \A c \in Counters : Persisted[c] = last.loaded[c] + Bump(LastEvent, c)

\* C7 witness: a PreCompact saved on a state that already counts a prompt.
C7_Witness ==
  /\ Renamed
  /\ LastEvent = "PreCompact"
  /\ last.loaded.prompts = 1
  /\ Persisted.compressions = last.loaded.compressions + 1

\* C8: UserPromptSubmit gives state thinking, pending_question false and
\* idle_since null, whatever state it finds.
C8_PromptResets ==
  (Renamed /\ LastEvent = "UserPromptSubmit") =>
    /\ Persisted.state = "thinking"
    /\ Persisted.pending_question = FALSE
    /\ Persisted.idle_since = None

\* C8 witness: a prompt saved on a state with the flag set and the idle timer running.
C8_Witness ==
  /\ Renamed
  /\ LastEvent = "UserPromptSubmit"
  /\ last.loaded.pending_question
  /\ last.loaded.idle_since # None
  /\ Whole(file)

\* C9: on a file that is missing, cut short or otherwise invalid, load returns
\* the defaults and never raises, and the invocation goes on to its event.
C9_LoadNeverRaises ==
  \A p \in Procs :
    /\ exit[p].why # "load_raised"
    /\ (pc[p] = "dispatch" /\ loadVer[p] = 0) => loaded[p] = DefaultStats

\* C10: no step an invocation takes inside save_stats other than a successful
\* rename changes the stats file, and an invocation whose save fails (open, write
\* or rename) ends with status 0, its temp file unlinked (or left behind when the
\* unlink fails too): the stats file is as it was before the save started.
C10_FailedSaveKeepsTarget ==
  [][\A p \in Procs :
       (/\ pc[p] \in {"save", "write", "rename"}
        /\ (pc'[p] # pc[p] \/ tmp'[p] # tmp[p])
        /\ submitted' = submitted)
         => /\ file' = file
            /\ pc'[p] = "done" => (exit'[p].status = 0 /\ tmp'[p] \in {Absent, Litter})]_vars

\* C10 witness: a save failed after its temp file was written, while the stats
\* file holds a document.
C10_Witness ==
  \E p \in Procs :
    /\ exit[p].why = "save_failed"
    /\ Whole(file)
    /\ tmp[p] = Litter

\* C11: an invocation whose input fails to parse (text that is not JSON, bytes
\* that are not text) does no load and no save: the stats file is left as it was,
\* no temp file is created, and the invocation ends with exit status 0.
C11_ParseFailureExitsZero ==
  [][\A p \in Procs :
       (/\ pc[p] = "unborn"
        /\ pc'[p] = "done"
        /\ exit'[p].why \in {"bad_input", "not_text"})
         => /\ file' = file
            /\ tmp' = tmp
            /\ submitted' = submitted
            /\ exit'[p].status = 0]_vars

\* C12: every invocation that has ended has exit status 0, whatever the outcome
\* of input parsing, loading and persisting, and whatever other invocations do.
C12_ExitStatusZero ==
  \A p \in Procs : pc[p] = "done" => exit[p].status = 0

\* C12, the termination half: every started invocation ends.
C12_Terminates ==
  \A p \in Procs : Running(p) ~> (pc[p] = "done")

\* the payload of the invocation of the latest rename
LastData == submitted[Len(submitted)]

\* field k is in the file what it was in the state the latest invocation loaded
Kept(k) == Persisted[k] = last.loaded[k]

\* the history in the file is the loaded one with one entry more, cut to the cap
OneEntryMore ==
  LET old == History(last.loaded)
      new == History(Persisted)
  IN  /\ Len(new) = Min(MAX_EVENT_HISTORY, Len(old) + 1)
      /\ SubSeq(new, 1, Len(new) - 1) = SubSeq(old, Len(old) - Len(new) + 2, Len(old))
      /\ new[Len(new)].event = LastEvent

LastEntry == History(Persisted)[Len(History(Persisted))]

Recognized == {"PermissionRequest", "PostToolUse", "Stop", "SubagentStop",
               "PreCompact", "UserPromptSubmit"}

\* C13: an invocation that has passed the event dispatch, whatever the event name,
\* holds the history it loaded with exactly one entry more (cut to the cap), and
\* that entry's state_before is the phase of the loaded state.
C13_OneEntryWithPhaseBefore ==
  \A p \in Procs :
    pc[p] \in {"save", "write", "rename"} =>
      LET old == History(loaded[p])
          new == History(stats[p])
      IN  /\ Len(new) = Min(MAX_EVENT_HISTORY, Len(old) + 1)
          /\ SubSeq(new, 1, Len(new) - 1) = SubSeq(old, Len(old) - Len(new) + 2, Len(old))
          /\ new[Len(new)].event = Get(data[p], "hook_event_name", "")
          /\ new[Len(new)].state_before = loaded[p].state

\* C13 witness: an event that changed the phase has been dispatched on a history
\* that was at the cap.
C13_Witness ==
  \E p \in Procs :
    /\ pc[p] = "save"
    /\ Len(History(loaded[p])) = MAX_EVENT_HISTORY
    /\ stats[p].state # loaded[p].state

\* C14: an event whose name is none of the six recognized ones (the empty name of
\* a payload without hook_event_name included) appends one entry carrying the
\* unhandled marker and leaves state, the four counters, tools, tool_timestamps,
\* pending_question and idle_since unchanged.
C14_UnknownEventOnlyLogs ==
  (Renamed /\ LastEvent \notin Recognized) =>
    /\ OneEntryMore
    /\ "details" \in DOMAIN LastEntry
    /\ LastEntry.details = [unhandled |-> TRUE]
    /\ \A k \in Counters \cup {"state", "tools", "tool_timestamps",
                               "pending_question", "idle_since"} : Kept(k)

\* C14 witness: a payload without an event name saved on a state that has a
\* phase other than ready, tools and a running idle timer.
C14_Witness ==
  /\ Renamed
  /\ LastData = EmptyDict
  /\ last.loaded.state # "ready"
  /\ last.loaded.tools # EmptyDict
  /\ last.loaded.idle_since # None
  /\ Whole(file)

\* C15: SubagentStop and PreCompact leave state, pending_question, idle_since,
\* tools and tool_timestamps unchanged; all they change is their one counter, by
\* one, and the history, by one entry.
C15_CountOnlyEvents ==
  (Renamed /\ LastEvent \in {"SubagentStop", "PreCompact"}) =>
    /\ \A k \in {"state", "pending_question", "idle_since", "tools", "tool_timestamps"} : Kept(k)
    /\ \A c \in Counters :
         Persisted[c] = last.loaded[c] + (IF c = CounterOf(LastEvent) THEN 1 ELSE 0)
    /\ OneEntryMore
    /\ "details" \notin DOMAIN LastEntry

\* C15 witness: a SubagentStop saved on a state in the permission phase with the
\* pending flag set.
C15_Witness ==
  /\ Renamed
  /\ LastEvent = "SubagentStop"
  /\ last.loaded.state = "permission"
  /\ last.loaded.pending_question
  /\ Whole(file)

\* C16: PermissionRequest yields state permission and changes no counter, no
\* tools entry, neither pending_question nor idle_since; on a fresh session the
\* history has length 1 and its entry has state_before ready.
C16_PermissionRequest ==
  (Renamed /\ LastEvent = "PermissionRequest") =>
    /\ Persisted.state = "permission"
    /\ \A k \in Counters \cup {"tools", "pending_question", "idle_since"} : Kept(k)
    /\ last.loaded = DefaultStats =>
         (Len(History(Persisted)) = 1 /\ History(Persisted)[1].state_before = "ready")

\* C16 witness: a session that began with a PermissionRequest has one saved on a
\* completed state with a tool counted and the idle timer running.
C16_Witness ==
  /\ Renamed
  /\ LastEvent = "PermissionRequest"
  /\ last.loaded.state = "complete"
  /\ last.loaded.idle_since # None
  /\ History(Persisted)[1].event = "PermissionRequest"
  /\ History(Persisted)[1].state_before = "ready"
  /\ Whole(file)

\* C17: PostToolUse yields state thinking, raises tools[tool_name] by one (from 0
\* when the tool is new, under "unknown" when tool_name is missing) and no other
\* tools entry, appends one timestamp, and sets pending_question when the tool is
\* AskUserQuestion, leaving it as it was otherwise.
C17_PostToolUse ==
  (Renamed /\ LastEvent = "PostToolUse") =>
    LET tool == IF "tool_name" \in DOMAIN LastData THEN LastData.tool_name ELSE "unknown"
        old == last.loaded
    IN  /\ Persisted.state = "thinking"
        /\ DOMAIN Persisted.tools = DOMAIN old.tools \cup {tool}
        /\ Persisted.tools[tool] = (IF tool \in DOMAIN old.tools THEN old.tools[tool] ELSE 0) + 1
        /\ \A u \in DOMAIN old.tools \ {tool} : Persisted.tools[u] = old.tools[u]
        /\ Len(Persisted.tool_timestamps) = Len(old.tool_timestamps) + 1
        /\ SubSeq(Persisted.tool_timestamps, 1, Len(old.tool_timestamps)) = old.tool_timestamps
        /\ Persisted.pending_question = (tool = "AskUserQuestion" \/ old.pending_question)

\* C17 witness: a PostToolUse without tool_name saved on a state that has the
\* pending flag set and another tool counted.
C17_Witness ==
  /\ Renamed
  /\ LastEvent = "PostToolUse"
  /\ "tool_name" \notin DOMAIN LastData
  /\ last.loaded.pending_question
  /\ "unknown" \notin DOMAIN last.loaded.tools
  /\ Whole(file)

\* C20: in every persisted state, state question or complete implies idle_since
\* is set.
C20_IdleSetWhenStopped ==
  Persisted.state \in {"question", "complete"} => Persisted.idle_since # None

\* C20 witness: a Stop saved the question phase on a state that was thinking with
\* the idle timer still running from an earlier Stop (the converse fails there).
C20_Witness ==
  /\ Renamed
  /\ Persisted.state = "question"
  /\ Persisted.idle_since # None
  /\ last.loaded.state = "thinking"
  /\ last.loaded.idle_since # None
  /\ Whole(file)

\* C18: in every persisted state, overlapping invocations included, the history
\* is in temporal order: no entry has a timestamp below that of the entry before it.
C18_HistoryInTimeOrder ==
  LET h == History(Persisted)
  IN  \A i \in 1..(Len(h) - 1) : h[i].ts <= h[i + 1].ts

\* C18 witness: an invocation that loaded before the previous rename has saved a
\* history whose entries were stamped at different times.
C18_Witness ==
  /\ Renamed
  /\ last.ver < Len(submitted) - 1
  /\ Len(History(Persisted)) >= 2
  /\ History(Persisted)[1].ts < History(Persisted)[2].ts
  /\ Whole(file)

\* the document target is what a sequential run gives that starts from the
\* document s at clock t and delivers, in their order, some of the payloads
\* ds[i], ds[i+1], ..: each one is loaded, dispatched at some time t1 and saved
\* at some time u with t <= t1 <= u, the next one starting at u
RECURSIVE SequentialFrom(_, _, _, _, _)
SequentialFrom(s, ds, i, t, target) ==
  \/ s = target
  \/ /\ i <= Len(ds)
     /\ \/ SequentialFrom(s, ds, i + 1, t, target)
        \/ \E t1 \in t..MaxClock : \E u \in t1..MaxClock :
             SequentialFrom(Put(Handle(s, ds[i], t1), "last_updated", Some(u)),
                            ds, i + 1, u, target)

\* C19: whatever the interleaving of the loads and saves of the invocations, the
\* stats file is absent or holds a whole document that a sequential run from the
\* default state produces by delivering the events of some of the invocations
\* that saved, each at most once, in the order of their renames.
C19_FileIsSequentialState ==
  \/ file = Absent
  \/ /\ Whole(file)
     /\ SequentialFrom(DefaultStats, submitted, 1, 0, file.doc)

\* C19 witness: three invocations have saved, the file holds the state of a run
\* of the first and the third alone: the event of the second is lost.
C19_Witness ==
  /\ Len(submitted) = 3
  /\ last.ver = 1
  /\ Whole(file)
  /\ Len(History(file.doc)) = 2
  /\ EventOf(submitted[2]) # EventOf(submitted[3])
  /\ EventOf(submitted[2]) # EventOf(submitted[1])

====
